---- MODULE Spec2Model ----
(***************************************************************************)
(* Model of example/offboard_position/offboard_position.cpp: the offboard  *)
(* position-control sequencer (main and offb_ctrl_ned) together with the   *)
(* answers of the gateways it calls (connection, Action, Offboard,         *)
(* Telemetry).                                                             *)
(*                                                                         *)
(* The program is single-threaded.  pc is the position of main, calls is   *)
(* the history of every call made on the SDK objects (with the time of the *)
(* call and the value it returned), now is the wall clock in milliseconds  *)
(* and sleepLeft the remainder of the sleep_for in progress.  out is what   *)
(* was written to std::cout and std::cerr, line by line.  failsafe_timeout *)
(* is the time the vehicle tolerates without a setpoint, a property of the *)
(* vehicle that the program never reads.                                   *)
(***************************************************************************)
EXTENDS Integers, Sequences, FiniteSets, TLC

VARIABLES pc, argc, exited, exitStatus, calls, now, sleepLeft,
          connection_result, gyro_ok, wp, i, out, failsafe_timeout

vars == <<pc, argc, exited, exitStatus, calls, now, sleepLeft,
          connection_result, gyro_ok, wp, i, out, failsafe_timeout>>

\* what the run is given and never changes
env == <<argc, failsafe_timeout>>

(***************************************************************************)
(* Bounds of the model.                                                    *)
(***************************************************************************)
\* largest argc tried (argc counts the program name)
MaxArgc == 3
\* largest number of times is_connected() answers false
MaxHeartbeatWaits == 2
\* largest number of times in_air() answers true
MaxInAirPolls == 2
\* largest failsafe timeout of the vehicle tried, in seconds
MaxTimeoutSeconds == 5

(***************************************************************************)
(* Exit statuses.                                                          *)
(***************************************************************************)
EXIT_SUCCESS == 0
EXIT_FAILURE == 1

(***************************************************************************)
(* Result enumerations of the SDK, reduced to the distinguished SUCCESS    *)
(* and two failure kinds each.                                             *)
(***************************************************************************)
ConnectionResults == {"SUCCESS", "SOCKET_ERROR", "CONNECTION_URL_INVALID"}
ActionResults == {"SUCCESS", "BUSY", "COMMAND_DENIED"}
OffboardResults == {"SUCCESS", "NO_SETPOINT_SET", "COMMAND_DENIED"}

(***************************************************************************)
(* IEEE-754 binary32 arithmetic, round to nearest even.  A float is the    *)
(* integer number of units of 2^-26 it is worth: every value the program   *)
(* computes is either zero or at least 1/8 in magnitude before a           *)
(* subtraction, so all of them are whole numbers of units.  Unsigned       *)
(* values converted with (float) are small integers and are kept as such.  *)
(***************************************************************************)
Unit == 2 ^ 26
MantLimit == 2 ^ 24

\* spacing of the binary32 values around magnitude m (m in units, m >= 0)
RECURSIVE Ulp(_)
Ulp(m) == IF m < MantLimit THEN 1 ELSE 2 * Ulp(m \div 2)

\* num/den (num >= 0, den > 0) rounded to the nearest multiple of u, ties
\* to the even multiple
RoundRatio(num, den, u) ==
    LET d == den * u
        q == num \div d
        r == num % d
    IN  IF 2 * r < d THEN q * u
        ELSE IF 2 * r > d THEN (q + 1) * u
        ELSE IF q % 2 = 0 THEN q * u ELSE (q + 1) * u

\* the binary32 value nearest to n units
F32Round(n) ==
    IF n < 0 THEN 0 - RoundRatio(0 - n, 1, Ulp(0 - n))
    ELSE RoundRatio(n, 1, Ulp(n))

\* a / (float)k
F32DivInt(a, k) ==
    IF a < 0 THEN 0 - RoundRatio(0 - a, k, Ulp((0 - a) \div k))
    ELSE RoundRatio(a, k, Ulp(a \div k))

\* a * (float)k
F32MulInt(a, k) == F32Round(a * k)

\* a + b
F32Add(a, b) == F32Round(a + b)

\* the literal num/den written with an f suffix
F32Lit(num, den) == F32DivInt(num * Unit, den)

\* a float in hundredths, rounded half away from zero (100/2^26 = 25/2^24)
Hundredths(n) ==
    IF n < 0 THEN 0 - (((0 - n) * 25 + 2 ^ 23) \div MantLimit)
    ELSE (n * 25 + 2 ^ 23) \div MantLimit

(***************************************************************************)
(* Durations, in milliseconds.                                             *)
(***************************************************************************)
seconds(n) == n * 1000
milliseconds(n) == n

RECURSIVE GCD(_, _)
GCD(a, b) == IF b = 0 THEN a ELSE GCD(b, a % b)

\* the clock advances in the coarsest step that meets every deadline
TickMs == GCD(seconds(1), milliseconds(400))

\* the failsafe timeouts a vehicle may have
FailsafeTimeouts == {seconds(k) : k \in 1..MaxTimeoutSeconds}

(***************************************************************************)
(* Output.  A line is the stream it went to, the tag offboard_log puts in  *)
(* square brackets in front of it (empty for any other line) and its text. *)
(***************************************************************************)
Cout(msg) == [stream |-> "cout", tag |-> "", text |-> msg]

Cerr(msg) == [stream |-> "cerr", tag |-> "", text |-> msg]

\* variant: the line is written without the mode in front
offboard_log_untagged(offb_mode, msg) == Cout(msg)

offboard_log(offb_mode, msg) ==
    [stream |-> "cout", tag |-> offb_mode, text |-> msg]

offb_mode == "NED"

\* d decimal digits of v, with leading zeros
RECURSIVE Digits(_, _)
Digits(v, d) ==
    IF d = 0 THEN "" ELSE Digits(v \div 10, d - 1) \o ToString(v % 10)

\* the first d decimals of f / Unit and what is left of f: <<decimals, rest>>
RECURSIVE Decimals(_, _, _)
Decimals(f, d, acc) ==
    IF d = 0 THEN <<acc, f>>
    ELSE Decimals((f * 10) % Unit, d - 1, acc * 10 + (f * 10) \div Unit)

\* std::to_string of a float: "%f" of its value, six decimals, the nearest
\* and on a tie the even one
to_string(n) ==
    LET m == IF n < 0 THEN 0 - n ELSE n
        dec == Decimals(m % Unit, 6, 0)
        up == \/ 2 * dec[2] > Unit
              \/ 2 * dec[2] = Unit /\ dec[1] % 2 = 1
        micro == (m \div Unit) * 1000000 + dec[1] + (IF up THEN 1 ELSE 0)
    IN  (IF n < 0 THEN "-" ELSE "") \o ToString(micro \div 1000000)
            \o "." \o Digits(micro % 1000000, 6)

(***************************************************************************)
(* The setpoints of offb_ctrl_ned.  A setpoint is <<north, east, down,     *)
(* yaw>>.                                                                  *)
(***************************************************************************)
height == F32Lit(3, 4)
steps == 5

ZeroSetpoint == <<0, 0, 0, 0>>

\* variant: the sideways step comes before the climb, with the climb's hold
MissionScriptSwapped ==
    << [message |-> "Going to 0, 0, -0.0",
        target |-> <<0, 0, 0 - 0, 0>>, holdDuration |-> seconds(1)],
       [message |-> "Going to 0.2, 0, -0.75",
        target |-> <<F32Lit(1, 5), 0, 0 - height, 0>>,
        holdDuration |-> seconds(2)],
       [message |-> "Going to 0, 0, -0.75",
        target |-> <<0, 0, 0 - height, 0>>, holdDuration |-> seconds(4)],
       [message |-> "Going to 0, 0, -0.75",
        target |-> <<0, 0, 0 - height, 0>>, holdDuration |-> seconds(2)] >>

\* variant: the climb is given five seconds to settle
MissionScriptLongHold ==
    << [message |-> "Going to 0, 0, -0.0",
        target |-> <<0, 0, 0 - 0, 0>>, holdDuration |-> seconds(1)],
       [message |-> "Going to 0, 0, -0.75",
        target |-> <<0, 0, 0 - height, 0>>, holdDuration |-> seconds(5)],
       [message |-> "Going to 0.2, 0, -0.75",
        target |-> <<F32Lit(1, 5), 0, 0 - height, 0>>,
        holdDuration |-> seconds(2)],
       [message |-> "Going to 0, 0, -0.75",
        target |-> <<0, 0, 0 - height, 0>>, holdDuration |-> seconds(2)] >>

\* the four scripted position targets and the sleep that follows each
MissionScript ==
    << [message |-> "Going to 0, 0, -0.0",
        target |-> <<0, 0, 0 - 0, 0>>, holdDuration |-> seconds(1)],
       [message |-> "Going to 0, 0, -0.75",
        target |-> <<0, 0, 0 - height, 0>>, holdDuration |-> seconds(4)],
       [message |-> "Going to 0.2, 0, -0.75",
        target |-> <<F32Lit(1, 5), 0, 0 - height, 0>>,
        holdDuration |-> seconds(2)],
       [message |-> "Going to 0, 0, -0.75",
        target |-> <<0, 0, 0 - height, 0>>, holdDuration |-> seconds(2)] >>

\* the value the loop logs for step k: the interpolation without clearance
RampLogged(k) ==
    F32Add(0 - height, F32MulInt(F32DivInt(height, steps), k))

\* variant: the clearance is left out of the setpoint as well
RampDownNoOffset(k) == RampLogged(k)

\* variant: the interpolation taken one step further
RampDownNextStep(k) ==
    F32Add(F32Add(0 - height, F32MulInt(F32DivInt(height, steps), k + 1)),
           F32Lit(3, 20))

\* variant: the interpolation runs away from zero
RampDownDescending(k) ==
    F32Add(F32Add(0 - height,
                  0 - F32MulInt(F32DivInt(height, steps), k)),
           F32Lit(3, 20))

\* down-component of the k-th interpolated setpoint
RampDown(k) ==
    F32Add(F32Add(0 - height, F32MulInt(F32DivInt(height, steps), k)),
           F32Lit(3, 20))

RampSetpoint(k) == <<0, 0, RampDown(k), 0>>

RampDelay == milliseconds(400)

(***************************************************************************)
(* Helpers on the call history.                                            *)
(***************************************************************************)
\* one call: the statement that made it, the operation, its argument, the
\* value returned and the time of the call
Call(op, arg, res) ==
    [at |-> pc, op |-> op, arg |-> arg, res |-> res, t |-> now]

Record(op, arg, res) == calls' = Append(calls, Call(op, arg, res))

CallsOf(op) == {k \in 1..Len(calls) : calls[k].op = op}

SetpointOps == {"set_velocity_ned", "set_position_ned"}

SetpointCalls == {k \in 1..Len(calls) : calls[k].op \in SetpointOps}

\* the calls made by the statement at loc, in order
CallsAt(loc) == LET Made(c) == c.at = loc IN SelectSeq(calls, Made)

\* the position setpoints, in order
PositionCalls ==
    LET IsPosition(c) == c.op = "set_position_ned"
    IN  SelectSeq(calls, IsPosition)

(***************************************************************************)
(* The error-exit helpers: TRUE when the process exits with EXIT_FAILURE.  *)
(***************************************************************************)
\* variant: the result is reported but the process goes on
action_error_exit_ignored(result) == FALSE

action_error_exit(result) == result # "SUCCESS"

offboard_error_exit(result) == result # "SUCCESS"

\* the process is running and not inside a sleep_for
At(loc) == pc = loc /\ ~exited /\ sleepLeft = 0

Goto(loc) == pc' = loc /\ exited' = exited /\ exitStatus' = exitStatus

Exit(status) == pc' = "exited" /\ exited' = TRUE /\ exitStatus' = status

\* continue at loc unless the error-exit helper ended the process
ExitOrGoto(exits, loc) ==
    IF exits THEN Exit(EXIT_FAILURE) ELSE Goto(loc)

Sleep(d) == sleepLeft' = d

\* the lines written by one step
Log(lines) == out' = out \o lines

NoLog == out' = out

\* what the error-exit helpers write: the message and the result on
\* std::cerr when the result is a failure
ErrorLine(exits, message, result) ==
    IF exits THEN <<Cerr(message \o result)>> ELSE <<>>

Init ==
    /\ pc = "main"
    /\ argc \in 1..MaxArgc
    /\ exited = FALSE
    /\ exitStatus = EXIT_SUCCESS
    /\ calls = <<>>
    /\ now = 0
    /\ sleepLeft = 0
    /\ connection_result = "SUCCESS"
    /\ gyro_ok = FALSE
    /\ wp = 1
    /\ i = 0
    /\ out = <<>>
    /\ failsafe_timeout \in FailsafeTimeouts

\* sleep_for in progress: the clock advances
Tick ==
    /\ ~exited
    /\ sleepLeft > 0
    /\ now' = now + TickMs
    /\ sleepLeft' = sleepLeft - TickMs
    /\ UNCHANGED <<pc, argc, exited, exitStatus, calls, connection_result,
                   gyro_ok, wp, i, out, failsafe_timeout>>

(***************************************************************************)
(* main, up to the construction of the plugins.                            *)
(***************************************************************************)
\* variant: extra arguments are tolerated
ArgcAtLeast(n) == n >= 2

\* the argument count main accepts
ArgcOk(n) == n = 2

\* argc == 2: add_any_connection(argv[1])
main_Connect ==
    /\ At("main")
    /\ ArgcOk(argc)
    /\ \E r \in ConnectionResults :
          /\ connection_result' = r
          /\ Record("add_any_connection", <<>>, r)
    /\ Goto("check_connection")
    /\ NoLog
    /\ UNCHANGED <<env, now, sleepLeft, gyro_ok, wp, i>>

\* any other argc: usage(argv[0]); return 1
main_Usage ==
    /\ At("main")
    /\ ~ArgcOk(argc)
    /\ Exit(1)
    /\ Log(<<Cout("Usage")>>)
    /\ UNCHANGED <<env, calls, now, sleepLeft, connection_result, gyro_ok,
                   wp, i>>

\* variant: a failed connection is not looked at
main_CheckConnectionIgnored ==
    /\ At("check_connection")
    /\ Goto("wait_heartbeat")
    /\ NoLog
    /\ UNCHANGED <<env, calls, now, sleepLeft, connection_result, gyro_ok,
                   wp, i>>

\* variant: the failure is reported but main does not return
main_CheckConnectionReported ==
    /\ At("check_connection")
    /\ Goto("wait_heartbeat")
    /\ Log(IF connection_result # "SUCCESS"
             THEN <<Cout("Connection failed: " \o connection_result)>>
             ELSE <<>>)
    /\ UNCHANGED <<env, calls, now, sleepLeft, connection_result, gyro_ok,
                   wp, i>>

\* connection_result != SUCCESS: report and return 1
main_CheckConnection ==
    /\ At("check_connection")
    /\ IF connection_result # "SUCCESS"
         THEN Exit(1)
         ELSE Goto("wait_heartbeat")
    /\ Log(IF connection_result # "SUCCESS"
             THEN <<Cout("Connection failed: " \o connection_result)>>
             ELSE <<>>)
    /\ UNCHANGED <<env, calls, now, sleepLeft, connection_result, gyro_ok,
                   wp, i>>

\* while (!dc.is_connected()) sleep_for(seconds(1)); then the plugins are
\* made and main sleeps one second
main_WaitHeartbeat ==
    /\ At("wait_heartbeat")
    /\ \E connected \in BOOLEAN :
          /\ ~connected =>
                Cardinality({k \in CallsOf("is_connected") :
                               calls[k].res = "false"}) < MaxHeartbeatWaits
          /\ Record("is_connected", <<>>,
                    IF connected THEN "true" ELSE "false")
          /\ Log(IF connected THEN <<>>
                 ELSE <<Cout("Wait for system to connect via heartbeat")>>)
          /\ Goto(IF connected THEN "health" ELSE "wait_heartbeat")
    /\ Sleep(seconds(1))
    /\ UNCHANGED <<env, now, connection_result, gyro_ok, wp, i>>

\* variant: main gives up when the gyro is not calibrated
main_HealthGated ==
    /\ At("health")
    /\ \E g \in BOOLEAN :
          /\ gyro_ok' = g
          /\ Record("health", <<>>, IF g THEN "true" ELSE "false")
          /\ Log(IF g THEN <<Cout("Gyro is calibrated")>> ELSE <<>>)
          /\ Sleep(IF g THEN seconds(1) ELSE 0)
          /\ IF g THEN Goto("arm") ELSE Exit(EXIT_FAILURE)
    /\ UNCHANGED <<env, now, connection_result, wp, i>>

\* telemetry->health(); a calibrated gyro is logged and costs a second
main_Health ==
    /\ At("health")
    /\ \E g \in BOOLEAN :
          /\ gyro_ok' = g
          /\ Record("health", <<>>, IF g THEN "true" ELSE "false")
          /\ Log(IF g THEN <<Cout("Gyro is calibrated")>> ELSE <<>>)
          /\ Sleep(IF g THEN seconds(1) ELSE 0)
    /\ Goto("arm")
    /\ UNCHANGED <<env, now, connection_result, wp, i>>

\* variant: the priming setpoint is sent before arm()
main_ArmPrimed ==
    /\ At("arm")
    /\ \E r \in ActionResults :
          /\ calls' = Append(Append(calls,
                                    Call("set_velocity_ned", ZeroSetpoint, "")),
                             Call("arm", <<>>, r))
          /\ Log(ErrorLine(action_error_exit(r), "Arming failed", r)
                   \o IF action_error_exit(r) THEN <<>>
                      ELSE <<Cout("Armed")>>)
          /\ ExitOrGoto(action_error_exit(r), "offb_prime")
    /\ UNCHANGED <<env, now, sleepLeft, connection_result, gyro_ok, wp, i>>

\* action->arm(); action_error_exit(arm_result, ...)
main_Arm ==
    /\ At("arm")
    /\ \E r \in ActionResults :
          /\ Record("arm", <<>>, r)
          /\ Log(ErrorLine(action_error_exit(r), "Arming failed", r)
                   \o IF action_error_exit(r) THEN <<>>
                      ELSE <<Cout("Armed")>>)
          /\ ExitOrGoto(action_error_exit(r), "offb_prime")
    /\ UNCHANGED <<env, now, sleepLeft, connection_result, gyro_ok, wp, i>>

(***************************************************************************)
(* offb_ctrl_ned.                                                          *)
(***************************************************************************)
\* what Offboard::start() can answer: it refuses with NO_SETPOINT_SET
\* exactly when no setpoint was ever sent
OffboardStartAnswers ==
    IF SetpointCalls = {} THEN {"NO_SETPOINT_SET"}
    ELSE OffboardResults \ {"NO_SETPOINT_SET"}

\* variant: the priming setpoint is left out
offb_PrimeSkipped ==
    /\ At("offb_prime")
    /\ Goto("offb_start")
    /\ NoLog
    /\ UNCHANGED <<env, calls, now, sleepLeft, connection_result, gyro_ok,
                   wp, i>>

\* offboard->set_velocity_ned({0, 0, 0, 0}) before starting offboard
offb_Prime ==
    /\ At("offb_prime")
    /\ Record("set_velocity_ned", ZeroSetpoint, "")
    /\ Goto("offb_start")
    /\ NoLog
    /\ UNCHANGED <<env, now, sleepLeft, connection_result, gyro_ok, wp, i>>

\* offboard->start(); offboard_error_exit(offboard_result, ...)
offb_Start ==
    /\ At("offb_start")
    /\ \E r \in OffboardStartAnswers :
          /\ Record("start", <<>>, r)
          /\ Log(ErrorLine(offboard_error_exit(r),
                           "Offboard start failed", r)
                   \o IF offboard_error_exit(r) THEN <<>>
                      ELSE <<offboard_log(offb_mode, "Offboard started")>>)
          /\ ExitOrGoto(offboard_error_exit(r), "waypoint")
    /\ UNCHANGED <<env, now, sleepLeft, connection_result, gyro_ok, wp, i>>

\* offboard->set_position_ned(target); sleep_for(holdDuration), once for
\* each entry of the script; the interpolation loop follows with i = 0
offb_Waypoint ==
    /\ At("waypoint")
    /\ Log(<<offboard_log(offb_mode, MissionScript[wp].message)>>)
    /\ Record("set_position_ned", MissionScript[wp].target, "")
    /\ Sleep(MissionScript[wp].holdDuration)
    /\ IF wp < Len(MissionScript)
         THEN wp' = wp + 1 /\ i' = i /\ Goto("waypoint")
         ELSE wp' = wp /\ i' = 0 /\ Goto("ramp")
    /\ UNCHANGED <<env, now, connection_result, gyro_ok>>

\* body of for (i = 0; i < steps; ++i)
offb_RampStep ==
    /\ At("ramp")
    /\ i < steps
    /\ Record("set_position_ned", RampSetpoint(i), "")
    /\ Log(<<offboard_log(offb_mode, to_string(RampLogged(i)))>>)
    /\ Sleep(RampDelay)
    /\ i' = i + 1
    /\ Goto("ramp")
    /\ UNCHANGED <<env, now, connection_result, gyro_ok, wp>>

\* i < steps is false: the loop ends
offb_RampExit ==
    /\ At("ramp")
    /\ ~(i < steps)
    /\ Goto("final")
    /\ NoLog
    /\ UNCHANGED <<env, calls, now, sleepLeft, connection_result, gyro_ok,
                   wp, i>>

\* variant: offb_ctrl_ned reports a failure
offb_ctrl_ned_failed == FALSE

\* what offb_ctrl_ned returns
offb_ctrl_ned_ret == TRUE

\* variant: offboard is stopped before offb_ctrl_ned returns
offb_FinalStop ==
    /\ At("final")
    /\ Log(<<offboard_log(offb_mode, "Going to 0, 0, 0")>>)
    /\ \E r \in OffboardResults \ {"NO_SETPOINT_SET"} :
          /\ calls' = Append(Append(calls,
                                    Call("set_position_ned", ZeroSetpoint, "")),
                             Call("stop", <<>>, r))
          /\ ExitOrGoto(offboard_error_exit(r), "land")
    /\ UNCHANGED <<env, now, sleepLeft, connection_result, gyro_ok, wp, i>>

\* variant: the last setpoint is given a second to settle
offb_FinalSettled ==
    /\ At("final")
    /\ Log(<<offboard_log(offb_mode, "Going to 0, 0, 0")>>)
    /\ Record("set_position_ned", ZeroSetpoint, "")
    /\ Sleep(seconds(1))
    /\ IF offb_ctrl_ned_ret = FALSE THEN Exit(EXIT_FAILURE) ELSE Goto("land")
    /\ UNCHANGED <<env, now, connection_result, gyro_ok, wp, i>>

\* set_position_ned({0, 0, 0, 0}); return true; main returns EXIT_FAILURE
\* if ret == false
offb_Final ==
    /\ At("final")
    /\ Log(<<offboard_log(offb_mode, "Going to 0, 0, 0")>>)
    /\ Record("set_position_ned", ZeroSetpoint, "")
    /\ IF offb_ctrl_ned_ret = FALSE THEN Exit(EXIT_FAILURE) ELSE Goto("land")
    /\ UNCHANGED <<env, now, sleepLeft, connection_result, gyro_ok, wp, i>>

(***************************************************************************)
(* main, after offb_ctrl_ned returned.                                     *)
(***************************************************************************)
\* variant: a failed land() is followed by the disarm() clean-up
main_LandThenCleanup ==
    /\ At("land")
    /\ \E r \in ActionResults :
          /\ Record("land", <<>>, r)
          /\ Log(ErrorLine(action_error_exit(r), "Landing failed", r))
          /\ Goto(IF action_error_exit(r) THEN "disarm" ELSE "in_air")
    /\ UNCHANGED <<env, now, sleepLeft, connection_result, gyro_ok, wp, i>>

\* action->land(); action_error_exit(land_result, ...)
main_Land ==
    /\ At("land")
    /\ \E r \in ActionResults :
          /\ Record("land", <<>>, r)
          /\ Log(ErrorLine(action_error_exit(r), "Landing failed", r))
          /\ ExitOrGoto(action_error_exit(r), "in_air")
    /\ UNCHANGED <<env, now, sleepLeft, connection_result, gyro_ok, wp, i>>

\* variant: in_air() is read once and its answer is not waited on
main_PollInAirOnce ==
    /\ At("in_air")
    /\ \E air \in BOOLEAN :
          /\ air =>
                Cardinality({k \in CallsOf("in_air") :
                               calls[k].res = "true"}) < MaxInAirPolls
          /\ Record("in_air", <<>>, IF air THEN "true" ELSE "false")
          /\ Log(IF air THEN <<Cout("Vehicle is landing...")>> ELSE <<>>)
          /\ Sleep(IF air THEN seconds(1) ELSE 0)
    /\ Goto("disarm")
    /\ UNCHANGED <<env, now, connection_result, gyro_ok, wp, i>>

\* while (telemetry->in_air()) sleep_for(seconds(1))
main_PollInAir ==
    /\ At("in_air")
    /\ \E air \in BOOLEAN :
          /\ air =>
                Cardinality({k \in CallsOf("in_air") :
                               calls[k].res = "true"}) < MaxInAirPolls
          /\ Record("in_air", <<>>, IF air THEN "true" ELSE "false")
          /\ Log(IF air THEN <<Cout("Vehicle is landing...")>> ELSE <<>>)
          /\ Sleep(IF air THEN seconds(1) ELSE 0)
          /\ Goto(IF air THEN "in_air" ELSE "disarm")
    /\ UNCHANGED <<env, now, connection_result, gyro_ok, wp, i>>

\* variant: the result of disarm() goes through action_error_exit
main_DisarmChecked ==
    /\ At("disarm")
    /\ \E r \in ActionResults :
          /\ Record("disarm", <<>>, r)
          /\ ExitOrGoto(action_error_exit(r), "finish")
    /\ Log(<<Cout("Landed!")>>)
    /\ Sleep(seconds(3))
    /\ UNCHANGED <<env, now, connection_result, gyro_ok, wp, i>>

\* action->disarm(), result dropped; sleep_for(seconds(3))
main_Disarm ==
    /\ At("disarm")
    /\ \E r \in ActionResults : Record("disarm", <<>>, r)
    /\ Log(<<Cout("Landed!")>>)
    /\ Sleep(seconds(3))
    /\ Goto("finish")
    /\ UNCHANGED <<env, now, connection_result, gyro_ok, wp, i>>

\* return EXIT_SUCCESS
main_Finish ==
    /\ At("finish")
    /\ Exit(EXIT_SUCCESS)
    /\ Log(<<Cout("Finished...")>>)
    /\ UNCHANGED <<env, calls, now, sleepLeft, connection_result, gyro_ok,
                   wp, i>>

Next ==
    \/ Tick
    \/ main_Connect
    \/ main_Usage
    \/ main_CheckConnection
    \/ main_WaitHeartbeat
    \/ main_Health
    \/ main_Arm
    \/ offb_Prime
    \/ offb_Start
    \/ offb_Waypoint
    \/ offb_RampStep
    \/ offb_RampExit
    \/ offb_Final
    \/ main_Land
    \/ main_PollInAir
    \/ main_Disarm
    \/ main_Finish

Spec == Init /\ [][Next]_vars

\* the process is never suspended for good and the clock keeps running
FairSpec == Spec /\ WF_vars(Next)

(***************************************************************************)
(* The same program with an in_air() that may answer true for ever.  Past  *)
(* MaxInAirPolls answers of true the history, the output and the clock are *)
(* no longer extended: the state only keeps that the loop is polling.      *)
(***************************************************************************)
InAirTrueAnswers ==
    Cardinality({k \in CallsOf("in_air") : calls[k].res = "true"})

PastHorizon == pc = "in_air" /\ InAirTrueAnswers >= MaxInAirPolls

TickForever ==
    /\ ~exited
    /\ sleepLeft > 0
    /\ now' = IF PastHorizon THEN now ELSE now + TickMs
    /\ sleepLeft' = sleepLeft - TickMs
    /\ UNCHANGED <<pc, argc, exited, exitStatus, calls, connection_result,
                   gyro_ok, wp, i, out, failsafe_timeout>>

\* variant: the loop gives up after MaxInAirPolls answers of true
main_PollInAirTimeout ==
    /\ At("in_air")
    /\ \E air \in BOOLEAN :
          /\ IF air /\ PastHorizon
               THEN calls' = calls /\ NoLog
               ELSE /\ Record("in_air", <<>>, IF air THEN "true" ELSE "false")
                    /\ Log(IF air THEN <<Cout("Vehicle is landing...")>>
                           ELSE <<>>)
          /\ Sleep(IF air THEN seconds(1) ELSE 0)
          /\ Goto(IF air /\ ~PastHorizon THEN "in_air" ELSE "disarm")
    /\ UNCHANGED <<env, now, connection_result, gyro_ok, wp, i>>

\* while (telemetry->in_air()) sleep_for(seconds(1)), any number of times
main_PollInAirForever ==
    /\ At("in_air")
    /\ \E air \in BOOLEAN :
          /\ IF air /\ PastHorizon
               THEN calls' = calls /\ NoLog
               ELSE /\ Record("in_air", <<>>, IF air THEN "true" ELSE "false")
                    /\ Log(IF air THEN <<Cout("Vehicle is landing...")>>
                           ELSE <<>>)
          /\ Sleep(IF air THEN seconds(1) ELSE 0)
          /\ Goto(IF air THEN "in_air" ELSE "disarm")
    /\ UNCHANGED <<env, now, connection_result, gyro_ok, wp, i>>

NextForever ==
    \/ TickForever
    \/ main_Connect
    \/ main_Usage
    \/ main_CheckConnection
    \/ main_WaitHeartbeat
    \/ main_Health
    \/ main_Arm
    \/ offb_Prime
    \/ offb_Start
    \/ offb_Waypoint
    \/ offb_RampStep
    \/ offb_RampExit
    \/ offb_Final
    \/ main_Land
    \/ main_PollInAirForever
    \/ main_Disarm
    \/ main_Finish

NoTimeoutSpec == Init /\ [][NextForever]_vars /\ WF_vars(NextForever)

TypeOK ==
    /\ argc \in 1..MaxArgc
    /\ exited \in BOOLEAN
    /\ exitStatus \in {EXIT_SUCCESS, EXIT_FAILURE}
    /\ sleepLeft >= 0
    /\ wp \in 1..Len(MissionScript)
    /\ i \in 0..steps

(***************************************************************************)
(* Properties.                                                             *)
(***************************************************************************)
InHundredths(sp) ==
    <<Hundredths(sp[1]), Hundredths(sp[2]), Hundredths(sp[3]),
      Hundredths(sp[4])>>

Succeeded(op) == \E k \in CallsOf(op) : calls[k].res = "SUCCESS"

\* C1: start() is called only after at least one setpoint was sent to the
\* offboard plugin, so a plugin that answers NO_SETPOINT_SET exactly when
\* no setpoint came before never gives that answer
StartAfterSetpoint ==
    \A k \in CallsOf("start") :
        /\ \E j \in SetpointCalls : j < k
        /\ calls[k].res # "NO_SETPOINT_SET"

StartWasCalled == Succeeded("start")

\* C2: a non-SUCCESS result of arm(), start() or land() ends the process
\* with a non-zero status at once: the failed call is the last call made
FailFast ==
    \A k \in 1..Len(calls) :
        (calls[k].op \in {"arm", "start", "land"} /\ calls[k].res # "SUCCESS")
            => /\ exited
               /\ exitStatus # 0
               /\ k = Len(calls)

LandFailedAndExited ==
    /\ exited
    /\ \E k \in CallsOf("land") : calls[k].res # "SUCCESS"
    /\ Succeeded("arm")
    /\ Succeeded("start")

\* C3: after arm(), start() and land() succeeded and in_air() answered
\* false, disarm() is called and whatever it returns the run is not
\* aborted: it goes on to the last statement and exits with status 0
DisarmBestEffort ==
    ( /\ Succeeded("arm") /\ Succeeded("start") /\ Succeeded("land")
      /\ \E k \in CallsOf("in_air") : calls[k].res = "false" )
        => /\ pc \in {"disarm", "finish", "exited"}
           /\ CallsOf("disarm") # {} => pc \in {"finish", "exited"}
           /\ exited => exitStatus = 0 /\ CallsOf("disarm") # {}

DisarmFailedExitZero ==
    /\ exited
    /\ exitStatus = 0
    /\ \E k \in CallsOf("disarm") : calls[k].res # "SUCCESS"

\* C4, as stated: whenever arm() is called a setpoint was sent before it
PrimeBeforeArm ==
    \A k \in CallsOf("arm") : \E j \in SetpointCalls : j < k

\* C4, amended: the zero-valued priming setpoint is the call that follows
\* a successful arm(): no setpoint is sent before arm() returned SUCCESS,
\* and the first one is the zero velocity setpoint sent right after it
PrimeAfterArm ==
    /\ \A j \in SetpointCalls :
          \E k \in CallsOf("arm") : k < j /\ calls[k].res = "SUCCESS"
    /\ \A j \in SetpointCalls :
          (\A h \in SetpointCalls : j <= h)
              => /\ calls[j].op = "set_velocity_ned"
                 /\ calls[j].arg = <<0, 0, 0, 0>>
                 /\ j > 1
                 /\ calls[j - 1].op = "arm"
    /\ \A k \in CallsOf("start") :
          calls[k - 1].op = "set_velocity_ned"

PrimingSent == \E j \in SetpointCalls : calls[j].op = "set_velocity_ned"

\* C5: the interpolation loop sends exactly 5 setpoints; the n-th of them
\* (i = n - 1) has north = east = yaw = 0 and, in hundredths, the
\* down-component -75 + 15 * i + 15
RampValues ==
    LET ramp == CallsAt("ramp")
    IN  /\ Len(ramp) <= 5
        /\ \A n \in 1..Len(ramp) :
              /\ ramp[n].op = "set_position_ned"
              /\ InHundredths(ramp[n].arg) =
                     <<0, 0, (0 - 75) + 15 * (n - 1) + 15, 0>>
        /\ pc \in {"final", "land", "in_air", "disarm", "finish"}
              => Len(ramp) = 5

RampDone == pc = "final" /\ Len(CallsAt("ramp")) = 5

\* C10, as stated: the ramp does not reach zero, every interpolated
\* setpoint stays above the origin (down-component below zero)
RampStaysShortOfZero ==
    LET ramp == CallsAt("ramp")
    IN  \A n \in 1..Len(ramp) : ramp[n].arg[3] < 0

\* C10, amended: the first four interpolated setpoints stay short of zero
\* and the fifth reaches it (2^-25, which is 0.00 in hundredths); the
\* setpoint sent after the loop is zero again
RampReachesZeroAtLastStep ==
    LET ramp == CallsAt("ramp")
        final == CallsAt("final")
    IN  /\ \A n \in 1..Len(ramp) :
              /\ n <= 4 => ramp[n].arg[3] < 0 /\ Hundredths(ramp[n].arg[3]) < 0
              /\ n = 5 => /\ ramp[n].arg[3] >= 0
                          /\ Hundredths(ramp[n].arg[3]) = 0
        /\ \A n \in 1..Len(final) :
              /\ final[n].arg = <<0, 0, 0, 0>>
              /\ Len(ramp) = 5

RampAndFinalSent == Len(CallsAt("ramp")) = 5 /\ Len(CallsAt("final")) = 1

\* C6: disarm() comes right after an in_air() that answered false, every
\* in_air() before that one answered true (N answers true, N + 1 polls),
\* and nothing is polled after the answer false
PollsThenDisarm ==
    /\ \A k \in CallsOf("disarm") :
          /\ k > 1
          /\ calls[k - 1].op = "in_air"
          /\ calls[k - 1].res = "false"
          /\ Cardinality(CallsOf("in_air")) =
                 Cardinality({j \in CallsOf("in_air") :
                                calls[j].res = "true"}) + 1
    /\ LET polls == CallsAt("in_air")
       IN  (polls # <<>> /\ polls[Len(polls)].res = "true")
               => CallsOf("disarm") = {}
    /\ \A j \in CallsOf("in_air") :
          calls[j].res = "false" => \A h \in CallsOf("in_air") : h <= j

DisarmAfterTwoPolls ==
    /\ CallsOf("disarm") # {}
    /\ Cardinality({j \in CallsOf("in_air") : calls[j].res = "true"}) >= 1

\* C7: with an argument count other than one connection argument (argc
\* other than 2) no call is made on the SDK at all and the exit status is 1
UsageErrorNoCalls ==
    argc - 1 # 1 =>
        /\ calls = <<>>
        /\ pc \in {"main", "exited"}
        /\ exited => exitStatus = 1

UsageErrorExited == argc - 1 # 1 /\ exited

\* C8: a run that ended has status 0 exactly when it went through every
\* phase, and status 1 otherwise
Completed ==
    /\ Succeeded("add_any_connection")
    /\ Succeeded("arm")
    /\ Succeeded("start")
    /\ Succeeded("land")
    /\ \E k \in CallsOf("in_air") : calls[k].res = "false"
    /\ CallsOf("disarm") # {}

ExitStatusIffCompleted ==
    exited =>
        /\ exitStatus = 0 <=> Completed
        /\ exitStatus # 0 => exitStatus = 1

ExitedZero == exited /\ exitStatus = 0 /\ Completed

\* C9: the scripted waypoints go out in the order (0,0,0), (0,0,-0.75),
\* (0.2,0,-0.75), (0,0,-0.75), and the position setpoint that follows each
\* is sent exactly 1 s, 4 s, 2 s, 2 s later: none is sent during a hold
WaypointOrderAndHolds ==
    LET way == CallsAt("waypoint")
        pos == PositionCalls
        target == << <<0, 0, 0, 0>>, <<0, 0, 0 - 75, 0>>,
                     <<20, 0, 0 - 75, 0>>, <<0, 0, 0 - 75, 0>> >>
        hold == <<1000, 4000, 2000, 2000>>
    IN  /\ Len(way) <= 4
        /\ \A n \in 1..Len(way) :
              /\ way[n] = pos[n]
              /\ InHundredths(way[n].arg) = target[n]
              /\ n < Len(pos) => pos[n + 1].t - pos[n].t = hold[n]
              /\ n = Len(pos) => now - pos[n].t <= hold[n]
        /\ pc \in {"ramp", "final", "land", "in_air", "disarm", "finish"}
              => Len(way) = 4

WaypointsDone == Len(CallsAt("waypoint")) = 4 /\ Len(CallsAt("ramp")) >= 1


\* C11: the down-components of the interpolated setpoints increase
\* strictly from one step to the next, and none is below -0.75
RampMonotone ==
    LET ramp == CallsAt("ramp")
    IN  /\ \A n \in 2..Len(ramp) : ramp[n].arg[3] > ramp[n - 1].arg[3]
        /\ \A n \in 1..Len(ramp) : ramp[n].arg[3] >= 0 - (3 * Unit) \div 4

RampClimbed ==
    LET ramp == CallsAt("ramp")
    IN  Len(ramp) = 5 /\ ramp[5].arg[3] > ramp[1].arg[3]


\* the time since the latest setpoint while offboard is started and land()
\* has not been called, and the times between the setpoints sent so far
OffboardActive == Succeeded("start") /\ CallsOf("land") = {}

SendGaps ==
    LET pos == PositionCalls
    IN  {pos[n + 1].t - pos[n].t : n \in 1..(Len(pos) - 1)}
            \cup (IF OffboardActive /\ pos # <<>>
                  THEN {now - pos[Len(pos)].t} ELSE {})

\* C12, as stated: between start() and land() the time between two
\* consecutive setpoints never exceeds the failsafe timeout of the vehicle
SendGapWithinTimeout == \A g \in SendGaps : g <= failsafe_timeout

\* C12, amended: the time between two consecutive setpoints never exceeds
\* 4 s, the longest hold, so it stays within the failsafe timeout of every
\* vehicle whose timeout is at least 4 s
SendGapAtMostFourSeconds ==
    /\ \A g \in SendGaps : g <= 4000
    /\ failsafe_timeout >= 4000 => \A g \in SendGaps : g <= failsafe_timeout

GapBeyondTimeout ==
    /\ \E g \in SendGaps : g = 4000 /\ g > failsafe_timeout
    /\ CallsOf("land") # {}


\* C13: once start() has returned SUCCESS nothing ends the run before
\* land(): the 4 waypoints and the 5 interpolated setpoints are all sent
\* and land() is called
OffboardRunsToLand ==
    /\ []((Succeeded("start") /\ CallsOf("land") = {}) => ~exited)
    /\ Succeeded("start") ~>
           /\ CallsOf("land") # {}
           /\ Len(CallsAt("waypoint")) = 4
           /\ Len(CallsAt("ramp")) = 5

LandReached == CallsOf("land") # {} /\ Len(PositionCalls) = 10


\* C14: after land() succeeded the run stays in the polling loop, without
\* disarming or ending, for as long as in_air() has not answered false,
\* however long that is; once it has answered false the run ends with
\* status 0
GroundedSeen == \E k \in CallsOf("in_air") : calls[k].res = "false"

NoTimeoutInWaitGrounded ==
    /\ []((Succeeded("land") /\ ~GroundedSeen)
            => (pc = "in_air" /\ ~exited /\ CallsOf("disarm") = {}))
    /\ GroundedSeen ~> (exited /\ exitStatus = 0)

StillPollingPastHorizon == PastHorizon /\ ~exited /\ sleepLeft > 0

\* not a property of the program: it says the polling loop is always left,
\* and fails on the run in which in_air() answers true for ever
WaitGroundedEnds == Succeeded("land") ~> pc # "in_air"


\* C15: when add_any_connection() fails it is the only call of the run:
\* the failure is reported and main returns 1 without any command to the
\* vehicle
ConnectionFailed ==
    \E k \in CallsOf("add_any_connection") : calls[k].res # "SUCCESS"

ConnectionFailureNoCommand ==
    ConnectionFailed =>
        /\ Len(calls) = 1
        /\ \A op \in {"arm", "set_velocity_ned", "set_position_ned", "start",
                       "land", "in_air", "disarm"} : CallsOf(op) = {}
        /\ pc \in {"check_connection", "exited"}
        /\ exited => /\ exitStatus = 1
                     /\ \E n \in 1..Len(out) :
                           out[n].text =
                               "Connection failed: " \o connection_result

ConnectionFailedExited == ConnectionFailed /\ exited


\* the calls made and the lines written by one step
NewCalls == SubSeq(calls', Len(calls) + 1, Len(calls'))

NewLines == SubSeq(out', Len(out) + 1, Len(out'))

Issues(ops) == \E n \in 1..Len(NewCalls) : NewCalls[n].op \in ops

IssuesSuccessful(ops) ==
    \E n \in 1..Len(NewCalls) :
        NewCalls[n].op \in ops /\ NewCalls[n].res = "SUCCESS"

\* C16, as stated: every step that issues a command (arm, start, a
\* position setpoint, land, disarm) writes a line tagged with the phase
CommandLogsTaggedLine ==
    [][Issues({"arm", "start", "set_position_ned", "land", "disarm"})
          => \E n \in 1..Len(NewLines) : NewLines[n].tag # ""]_vars

\* C16, amended: a successful start() and every position setpoint write
\* exactly one line, tagged NED; arm() writes the untagged line "Armed"
\* when it succeeds, a successful land() writes nothing, disarm() comes
\* with the untagged line "Landed!" and the priming setpoint writes nothing
OffboardCommandsLogTagged ==
    [][/\ (IssuesSuccessful({"start"}) \/ Issues({"set_position_ned"}))
            => /\ Len(NewLines) = 1
               /\ NewLines[1].tag = "NED"
               /\ NewLines[1].stream = "cout"
       /\ IssuesSuccessful({"arm"})
            => NewLines = <<[stream |-> "cout", tag |-> "", text |-> "Armed"]>>
       /\ IssuesSuccessful({"land"}) => NewLines = <<>>
       /\ Issues({"disarm"})
            => NewLines =
                  <<[stream |-> "cout", tag |-> "", text |-> "Landed!"]>>
       /\ Issues({"set_velocity_ned"}) => NewLines = <<>>
       /\ (Issues({"arm", "start", "land"})
             /\ ~IssuesSuccessful({"arm", "start", "land"}))
            => /\ Len(NewLines) = 1
               /\ NewLines[1].tag = ""
               /\ NewLines[1].stream = "cerr"]_vars

AllCommandsLogged ==
    /\ CallsOf("disarm") # {}
    /\ Cardinality({n \in 1..Len(out) : out[n].tag = "NED"}) = 11


\* C17: arm(), start(), land() and disarm() are each called at most once,
\* in that order, and disarm() only after land() returned SUCCESS and an
\* in_air() after it answered false
CommandsOnceInOrder ==
    /\ \A op \in {"arm", "start", "land", "disarm"} :
          Cardinality(CallsOf(op)) <= 1
    /\ \A s \in CallsOf("start") : \E a \in CallsOf("arm") : a < s
    /\ \A l \in CallsOf("land") : \E s \in CallsOf("start") : s < l
    /\ \A d \in CallsOf("disarm") :
          \E l \in CallsOf("land") :
              /\ l < d
              /\ calls[l].res = "SUCCESS"
              /\ \E p \in CallsOf("in_air") :
                    l < p /\ p < d /\ calls[p].res = "false"

AllFourCalled ==
    \A op \in {"arm", "start", "land", "disarm"} : CallsOf(op) # {}


\* C18: whatever health() reports for the gyro, arm() is the next call:
\* the flag decides only whether "Gyro is calibrated" is written and
\* whether one second passes before arm()
HealthRead(answer) == \E h \in CallsOf("health") : calls[h].res = answer

ArmRegardlessOfHealth ==
    /\ [](\A h \in CallsOf("health") :
            /\ ~exited \/ CallsOf("arm") # {}
            /\ CallsOf("arm") = {} => pc = "arm"
            /\ \A a \in CallsOf("arm") :
                  /\ a = h + 1
                  /\ calls[a].t - calls[h].t =
                         IF calls[h].res = "true" THEN 1000 ELSE 0
            /\ (\E n \in 1..Len(out) : out[n].text = "Gyro is calibrated")
                  <=> calls[h].res = "true")
    /\ HealthRead("false") ~> CallsOf("arm") # {}
    /\ HealthRead("true") ~> CallsOf("arm") # {}

ArmedWithoutGyro == HealthRead("false") /\ Succeeded("arm")


\* C19: stop() is never called on the offboard plugin, so when land() and
\* disarm() are issued offboard has been started and not stopped
StartedAt(k) ==
    \E s \in CallsOf("start") :
        /\ s < k
        /\ calls[s].res = "SUCCESS"
        /\ \A x \in CallsOf("stop") : x < s \/ x > k

NeverStopped ==
    /\ CallsOf("stop") = {}
    /\ \A k \in CallsOf("land") \cup CallsOf("disarm") : StartedAt(k)

DisarmedWhileStarted == \E k \in CallsOf("disarm") : StartedAt(k)

\* C20: the call before land() is the position setpoint (0, 0, 0, yaw 0),
\* sent once, right after the 5 interpolated setpoints and at the very time
\* of land(); 10 position setpoints lie between start() and land(): 4
\* waypoints, 5 interpolated, 1 final
FinalZeroBeforeLand ==
    \A l \in CallsOf("land") :
        /\ l > 2
        /\ calls[l - 1].op = "set_position_ned"
        /\ calls[l - 1].arg = <<0, 0, 0, 0>>
        /\ calls[l - 1].at = "final"
        /\ calls[l - 1].t = calls[l].t
        /\ calls[l - 2].at = "ramp"
        /\ \A s \in CallsOf("start") :
              Cardinality({k \in CallsOf("set_position_ned") :
                             s < k /\ k < l}) = 10
        /\ Len(CallsAt("waypoint")) = 4
        /\ Len(CallsAt("ramp")) = 5
        /\ Len(CallsAt("final")) = 1

LandAfterFinalZero == Succeeded("land") /\ Len(CallsAt("final")) = 1

====
